---- MODULE Spec2Model ----
(***************************************************************************)
(* Model of src/conjugation_data.ts: the ConjugationItem schema, the three  *)
(* literal-string union types and the exported array conjugationData.       *)
(*                                                                          *)
(* The module only declares data.  Its state is the content of the array    *)
(* that the exported constant names.  The steps are the ones the            *)
(* declarations leave open to code that imports the module:                 *)
(*   - the array is declared ConjugationItem[] (a mutable array type, not   *)
(*     readonly), so a value that type-checks as ConjugationItem can be     *)
(*     appended to it;                                                      *)
(*   - the binding is declared with const, so assigning another array to it *)
(*     is rejected;                                                         *)
(*   - WritingSystem and VerbForm are exported types, so a consumer may     *)
(*     hold a value of each.                                                *)
(* Type checking is modelled with strict null checks (the explicit          *)
(* "| null" on "Te Form" would add nothing otherwise).  JavaScript objects  *)
(* are records; a missing property is a missing record field; null is the   *)
(* record Null.  Japanese text is romanised.                                *)
(***************************************************************************)
EXTENDS Integers, Sequences, FiniteSets, TLC

\* conjugationData: the content of the exported array, a sequence of entries.
\* added:           history, the values appended so far, in the order appended.
\* lastOp:          history, the kind of the last step: "load" (none yet),
\*                  "push", "assign" or "select".
\* ws, vf:          a WritingSystem and a VerbForm value held by a consumer.
VARIABLES conjugationData, added, lastOp, ws, vf

vars == <<conjugationData, added, lastOp, ws, vf>>

\* Bound on the number of entries the array holds in the model.
MaxLen == 2

(***************************************************************************)
(* Values                                                                   *)
(***************************************************************************)
Null == [isNull |-> TRUE]

Pair(k, h) == [kanji |-> k, hiragana |-> h]

\* Variant: a third writing system is admitted.
WritingSystem_Romaji == {"kanji", "hiragana", "romaji"}

\* type WritingSystem = "kanji" | "hiragana"
WritingSystem == {"kanji", "hiragana"}

\* type VerbForm = "dictionary" | "masu"
VerbForm == {"dictionary", "masu"}

\* Variant: the bare tag "verb" is admitted as well.
WordType_Verb ==
  {"verb", "verb-ru", "verb-u", "verb-irregular", "noun", "adjective-i",
   "adjective-na", "adverb", "particle", "expression"}

\* type WordType = "verb-ru" | ... | "expression"
WordType ==
  {"verb-ru", "verb-u", "verb-irregular", "noun", "adjective-i",
   "adjective-na", "adverb", "particle", "expression"}

\* The four slots declared without "| null".
RequiredSlots ==
  {"Present Affirmative", "Present Negative", "Past Affirmative", "Past Negative"}

(***************************************************************************)
(* Type checking against the interface ConjugationItem                      *)
(***************************************************************************)
\* { kanji: string; hiragana: string }
IsFormPair(v) ==
  /\ {"kanji", "hiragana"} \subseteq DOMAIN v
  /\ v.kanji \in STRING
  /\ v.hiragana \in STRING

\* Variant: hiragana declared optional (hiragana?: string).
IsDictionary_OptionalHiragana(v) ==
  /\ "kanji" \in DOMAIN v
  /\ v.kanji \in STRING
  /\ ("hiragana" \in DOMAIN v => v.hiragana \in STRING)

\* Word.dictionary: { kanji: string; hiragana: string }
IsDictionary(v) ==
  /\ {"kanji", "hiragana"} \subseteq DOMAIN v
  /\ v.kanji \in STRING
  /\ v.hiragana \in STRING

\* Word: { dictionary; definition: string; type: WordType }
IsWord(w) ==
  /\ {"dictionary", "definition", "type"} \subseteq DOMAIN w
  /\ IsDictionary(w.dictionary)
  /\ w.definition \in STRING
  /\ w.type \in WordType

\* Variant: the fields of the "Te Form" pair declared optional.
IsTeForm_Partial(v) ==
  \/ v = Null
  \/ /\ DOMAIN v \subseteq {"kanji", "hiragana"}
     /\ \A f \in DOMAIN v : v[f] \in STRING

\* "Te Form": { kanji: string; hiragana: string } | null
IsTeForm(v) == v = Null \/ IsFormPair(v)

\* Variant: "Past Negative" declared nullable like "Te Form".
IsConjugationItem_NullablePastNegative(e) ==
  /\ ({"Word", "Te Form"} \cup RequiredSlots) \subseteq DOMAIN e
  /\ IsWord(e.Word)
  /\ \A s \in RequiredSlots \ {"Past Negative"} : IsFormPair(e[s])
  /\ IsTeForm(e["Past Negative"])
  /\ IsTeForm(e["Te Form"])

\* interface ConjugationItem
IsConjugationItem(e) ==
  /\ ({"Word", "Te Form"} \cup RequiredSlots) \subseteq DOMAIN e
  /\ IsWord(e.Word)
  /\ \A s \in RequiredSlots : IsFormPair(e[s])
  /\ IsTeForm(e["Te Form"])

(***************************************************************************)
(* Values a consumer may try to append.  They vary one part of a            *)
(* well-formed entry at a time; some of them do not type-check.             *)
(***************************************************************************)
taberu ==
  ("Word" :> [dictionary |-> Pair("shoku-beru", "taberu"),
              definition |-> "to eat",
              type |-> "verb-ru"])
    @@ ("Present Affirmative" :> Pair("shoku-bemasu", "tabemasu"))
    @@ ("Present Negative" :> Pair("shoku-bemasen", "tabemasen"))
    @@ ("Past Affirmative" :> Pair("shoku-bemashita", "tabemashita"))
    @@ ("Past Negative" :> Pair("shoku-bemasendeshita", "tabemasendeshita"))
    @@ ("Te Form" :> Pair("shoku-bete", "tabete"))

\* A noun: no conjugated forms, so the required slots are empty pairs and
\* "Te Form" is null.
hon ==
  ("Word" :> [dictionary |-> Pair("hon-kanji", "hon"),
              definition |-> "book",
              type |-> "noun"])
    @@ ("Present Affirmative" :> Pair("", ""))
    @@ ("Present Negative" :> Pair("", ""))
    @@ ("Past Affirmative" :> Pair("", ""))
    @@ ("Past Negative" :> Pair("", ""))
    @@ ("Te Form" :> Null)

\* Type tags tried: the nine declared ones and four that are not WordType.
TypeTags == WordType \cup {"verb", "adjective", "kanji", "masu"}

\* Dictionary values tried: no kanji spelling, no hiragana, missing fields, null.
DictionaryValues ==
  {Pair("", "taberu"), Pair("shoku-beru", ""),
   [kanji |-> "shoku-beru"], [hiragana |-> "taberu"], Null}

\* "Te Form" values tried: null, the empty pair, partially filled pairs.
TeFormValues ==
  {Null, Pair("", ""), [kanji |-> "shoku-bete"], [hiragana |-> "tabete"]}

\* Values tried in a required slot that are not a complete pair.
BrokenSlotValues == {Null, [kanji |-> "shoku-bemasu"], [hiragana |-> "tabemasu"]}

Candidates ==
  {taberu, hon}
    \cup {[taberu EXCEPT !.Word.type = t] : t \in TypeTags}
    \cup {[taberu EXCEPT !.Word.dictionary = d] : d \in DictionaryValues}
    \cup {[taberu EXCEPT !["Te Form"] = v] : v \in TeFormValues}
    \cup {[taberu EXCEPT ![s] = v] : s \in RequiredSlots, v \in BrokenSlotValues}

\* Tags a consumer may try as a WritingSystem or a VerbForm.
WritingTags == {"kanji", "hiragana", "romaji", "katakana", "dictionary"}

FormTags == {"dictionary", "masu", "te", "plain", "kanji"}

(***************************************************************************)
(* The exported array                                                       *)
(***************************************************************************)
\* Variant: the array literal already holds an entry.
conjugationDataLiteral_Populated == <<taberu>>

\* export const conjugationData: ConjugationItem[] = [ ]
conjugationDataLiteral == << >>

\* Variant: the entry is stored without its "Te Form".
push_DropTeForm(arr, e) == Append(arr, [e EXCEPT !["Te Form"] = Null])

\* Variant: the entry is put in front (unshift).
push_Unshift(arr, e) == <<e>> \o arr

\* conjugationData.push(e): the array type's append.
push(arr, e) == Append(arr, e)

\* Variant: the binding declared with let, the assignment goes through.
assign_Let(cur, v) == v

\* conjugationData = v on a const binding: rejected, the binding keeps its array.
assign(cur, v) == cur

Init ==
  /\ conjugationData = conjugationDataLiteral
  /\ added = << >>
  /\ lastOp = "load"
  /\ ws \in WritingSystem
  /\ vf \in VerbForm

\* A consumer appends a value that type-checks as ConjugationItem.
Push ==
  /\ Len(conjugationData) < MaxLen
  /\ \E e \in Candidates :
       /\ IsConjugationItem(e)
       /\ conjugationData' = push(conjugationData, e)
       /\ added' = Append(added, e)
  /\ lastOp' = "push"
  /\ UNCHANGED <<ws, vf>>

\* A consumer tries to bind conjugationData to another array.
Assign ==
  /\ \E e \in Candidates :
       /\ IsConjugationItem(e)
       /\ conjugationData' = assign(conjugationData, <<e>>)
  /\ lastOp' = "assign"
  /\ UNCHANGED <<added, ws, vf>>

\* A consumer picks a writing system.
SelectWritingSystem ==
  /\ \E t \in WritingTags :
       /\ t \in WritingSystem
       /\ ws' = t
  /\ lastOp' = "select"
  /\ UNCHANGED <<conjugationData, added, vf>>

\* A consumer picks a verb form.
SelectVerbForm ==
  /\ \E t \in FormTags :
       /\ t \in VerbForm
       /\ vf' = t
  /\ lastOp' = "select"
  /\ UNCHANGED <<conjugationData, added, ws>>

Next ==
  \/ Push
  \/ Assign
  \/ SelectWritingSystem
  \/ SelectVerbForm

Spec == Init /\ [][Next]_vars

(***************************************************************************)
(* Properties                                                               *)
(***************************************************************************)
Entries == {conjugationData[i] : i \in 1..Len(conjugationData)}

\* C1: right after the module is loaded, before any consumer step, the
\* collection has length 0.
EmptyOnLoad == lastOp = "load" => Len(conjugationData) = 0

EmptyOnLoad_Witness == lastOp = "load" /\ conjugationData = << >>

\* C2 as stated: the dictionary hiragana of every entry is a non-empty string.
HiraganaNonEmpty ==
  \A e \in Entries :
    /\ "hiragana" \in DOMAIN e.Word.dictionary
    /\ e.Word.dictionary.hiragana \in STRING
    /\ e.Word.dictionary.hiragana # ""

\* C2 amended: the dictionary hiragana of every entry is present and is a
\* string, which may be empty.
HiraganaIsString ==
  \A e \in Entries :
    /\ "hiragana" \in DOMAIN e.Word.dictionary
    /\ e.Word.dictionary.hiragana \in STRING

HiraganaIsString_Witness ==
  \E e \in Entries : e.Word.dictionary.hiragana = ""

\* C3: the "Te Form" of every entry is null or a pair with both a kanji and a
\* hiragana string, never a partially filled pair; null differs from the pair
\* of two empty strings.
TeFormNullOrPair ==
  /\ Null # Pair("", "")
  /\ \A e \in Entries :
       \/ e["Te Form"] = Null
       \/ /\ "kanji" \in DOMAIN e["Te Form"]
          /\ "hiragana" \in DOMAIN e["Te Form"]
          /\ e["Te Form"].kanji \in STRING
          /\ e["Te Form"].hiragana \in STRING

TeFormNullOrPair_Witness ==
  /\ \E e \in Entries : e["Te Form"] = Null
  /\ \E e \in Entries : e["Te Form"] = Pair("", "")

\* C4: each of the four required slots of every entry is not null and has a
\* kanji and a hiragana field, each a string that may be empty.
RequiredSlotsComplete ==
  \A e \in Entries :
    \A s \in {"Present Affirmative", "Present Negative",
               "Past Affirmative", "Past Negative"} :
      /\ s \in DOMAIN e
      /\ e[s] # Null
      /\ "kanji" \in DOMAIN e[s]
      /\ "hiragana" \in DOMAIN e[s]
      /\ e[s].kanji \in STRING
      /\ e[s].hiragana \in STRING

RequiredSlotsComplete_Witness ==
  /\ \E e \in Entries : e["Past Negative"] = Pair("", "")
  /\ \E e \in Entries : e["Past Negative"].hiragana = "tabemasendeshita"

\* C5: the word type of every entry is one of the nine tags verb-ru, verb-u,
\* verb-irregular, noun, adjective-i, adjective-na, adverb, particle,
\* expression, and these nine are exactly the declared WordType.
WordTypeOneOfNine ==
  /\ WordType = {"verb-ru", "verb-u", "verb-irregular", "noun", "adjective-i",
                 "adjective-na", "adverb", "particle", "expression"}
  /\ \A e \in Entries :
       e.Word.type \in {"verb-ru", "verb-u", "verb-irregular", "noun",
                        "adjective-i", "adjective-na", "adverb", "particle",
                        "expression"}

WordTypeOneOfNine_Witness ==
  /\ \E e \in Entries : e.Word.type = "expression"
  /\ \E e \in Entries : e.Word.type = "verb-irregular"

\* C6: after exactly one entry has been added to the empty collection, the
\* collection holds exactly one entry, equal to the added one.
RoundTrip ==
  Len(added) = 1 =>
    /\ Len(conjugationData) = 1
    /\ conjugationData[1] = added[1]

RoundTrip_Witness == Len(added) = 1 /\ conjugationData = <<taberu>>

\* C7 as stated: the collection always equals its initial value.
StaticTable == conjugationData = conjugationDataLiteral

\* C7 amended: the binding is constant, an attempt to assign another array to
\* conjugationData leaves the collection as it was (its content can still
\* change through the array's own append).
ConstBinding == [][lastOp' = "assign" => conjugationData' = conjugationData]_vars

ConstBinding_Witness == lastOp = "assign" /\ Len(conjugationData) = 1

\* C8: WritingSystem is exactly {kanji, hiragana} and VerbForm is exactly
\* {dictionary, masu}; a value of either type is never anything else.
EnumerationsClosed ==
  /\ WritingSystem = {"kanji", "hiragana"}
  /\ VerbForm = {"dictionary", "masu"}
  /\ ws \in {"kanji", "hiragana"}
  /\ vf \in {"dictionary", "masu"}

EnumerationsClosed_Witness == lastOp = "select" /\ ws = "hiragana" /\ vf = "masu"

====
